---- MODULE Spec2Model ----
(***************************************************************************)
(* Model of Phasor::Value (Runtime/Value.hpp as carried by                 *)
(* src/Executable/pmake/pmake_main.cpp): the tagged value of the VM, its   *)
(* arithmetic, comparison, truthiness and rendering operators, and the     *)
(* shared StructInstance / ArrayInstance heap behind shared_ptr handles.   *)
(*                                                                         *)
(* int64_t is modelled as a two's complement integer of IntBits bits and   *)
(* double as a sign/magnitude fixed-point number with FScale steps per     *)
(* unit, infinities, NaN and a signed zero.  std::string is a sequence of  *)
(* one-character strings.                                                  *)
(***************************************************************************)
EXTENDS Integers, Sequences, FiniteSets

VARIABLES slot, structs, arrays, written, out

vars == <<slot, structs, arrays, written, out>>

(***************************************************************************)
(* Bounds                                                                  *)
(***************************************************************************)
IntBits == 4
FScale == 2
FMaxUnits == 9
MaxLen == 2

(***************************************************************************)
(* int64_t                                                                 *)
(***************************************************************************)
Pow2(n) == 2 ^ n

IntMin == 0 - Pow2(IntBits - 1)

IntMax == Pow2(IntBits - 1) - 1

IntRange == IntMin .. IntMax

Abs(x) == IF x < 0 THEN 0 - x ELSE x

\* the value a two's complement register holds after an overflowing operation
Wrap(x) == ((x - IntMin) % Pow2(IntBits)) + IntMin

\* C++ integer division: the quotient with the fractional part discarded
TruncDiv(a, b) ==
    IF (a < 0) = (b < 0) THEN Abs(a) \div Abs(b) ELSE 0 - (Abs(a) \div Abs(b))

\* C++ remainder: magnitude of |a| mod |b|, sign of the dividend
TruncMod(a, b) ==
    IF a < 0 THEN 0 - (Abs(a) % Abs(b)) ELSE Abs(a) % Abs(b)

(***************************************************************************)
(* double                                                                  *)
(***************************************************************************)
FFin(neg, m) == [k |-> "fin", neg |-> neg, m |-> m]

FNaN == [k |-> "nan", neg |-> FALSE, m |-> 0]

FInf(neg) == [k |-> "inf", neg |-> neg, m |-> 0]

FPosZero == FFin(FALSE, 0)

FNegZero == FFin(TRUE, 0)

FMaxMag == FMaxUnits * FScale

FSigned(x) == IF x.neg THEN 0 - x.m ELSE x.m

FIsZero(x) == x.k = "fin" /\ x.m = 0

\* a finite result of magnitude mag, or infinity when it exceeds the format
FPack(neg, mag) == IF mag > FMaxMag THEN FInf(neg) ELSE FFin(neg, mag)

\* round-to-nearest, ties to even, of num/den
RoundHalfEven(num, den) ==
    LET q == num \div den
        r == num % den
    IN  IF 2 * r < den THEN q
        ELSE IF 2 * r > den THEN q + 1
        ELSE IF q % 2 = 0 THEN q ELSE q + 1

FNeg(x) == IF x.k = "nan" THEN x ELSE [x EXCEPT !.neg = ~x.neg]

FAdd(x, y) ==
    IF x.k = "nan" \/ y.k = "nan" THEN FNaN
    ELSE IF x.k = "inf" /\ y.k = "inf" THEN (IF x.neg = y.neg THEN x ELSE FNaN)
    ELSE IF x.k = "inf" THEN x
    ELSE IF y.k = "inf" THEN y
    ELSE LET n == FSigned(x) + FSigned(y)
         IN  IF n = 0 THEN (IF x.neg /\ y.neg THEN FNegZero ELSE FPosZero)
             ELSE FPack(n < 0, Abs(n))

FSub(x, y) == FAdd(x, FNeg(y))

FMul(x, y) ==
    IF x.k = "nan" \/ y.k = "nan" THEN FNaN
    ELSE IF (x.k = "inf" /\ FIsZero(y)) \/ (FIsZero(x) /\ y.k = "inf") THEN FNaN
    ELSE IF x.k = "inf" \/ y.k = "inf" THEN FInf(x.neg # y.neg)
    ELSE FPack(x.neg # y.neg, RoundHalfEven(x.m * y.m, FScale))

FDiv(x, y) ==
    IF x.k = "nan" \/ y.k = "nan" THEN FNaN
    ELSE IF x.k = "inf" /\ y.k = "inf" THEN FNaN
    ELSE IF x.k = "inf" THEN FInf(x.neg # y.neg)
    ELSE IF y.k = "inf" THEN FFin(x.neg # y.neg, 0)
    ELSE IF y.m = 0 THEN (IF x.m = 0 THEN FNaN ELSE FInf(x.neg # y.neg))
    ELSE FPack(x.neg # y.neg, RoundHalfEven(x.m * FScale, y.m))

\* IEEE comparison: NaN is unordered, -0.0 = +0.0
FEq(x, y) ==
    /\ x.k # "nan" /\ y.k # "nan"
    /\ \/ (FIsZero(x) /\ FIsZero(y))
       \/ x = y

FLt(x, y) ==
    /\ x.k # "nan" /\ y.k # "nan"
    /\ ~FEq(x, y)
    /\ IF x.k = "inf" THEN x.neg
       ELSE IF y.k = "inf" THEN ~y.neg
       ELSE FSigned(x) < FSigned(y)

\* static_cast<double>(int64_t)
IntToFloat(i) == FPack(i < 0, Abs(i) * FScale)

\* static_cast<int64_t>(double): the fractional part is discarded.  A NaN, an
\* infinity or a magnitude outside int64_t has no defined result; no operator
\* of Value applies asInt() to a Float, so that case is never evaluated here.
FloatToInt(x) ==
    IF x.neg THEN 0 - (x.m \div FScale) ELSE x.m \div FScale

(***************************************************************************)
(* std::string as a sequence of characters                                 *)
(***************************************************************************)
\* the characters used, in increasing order of their byte value
Alphabet ==
    <<" ", ",", "-", ".", "0", "1", "2", "3", "4", "5", "6", "7", "8", "9",
      "[", "]", "a", "b", "e", "f", "i", "k", "l", "n", "o", "r", "s", "t",
      "u", "w">>

CharCode(c) == CHOOSE i \in 1..Len(Alphabet) : Alphabet[i] = c

\* std::string::compare(...) < 0 : lexicographic by character, a proper
\* prefix is smaller
RECURSIVE StrLess(_, _)
StrLess(x, y) ==
    IF y = <<>> THEN FALSE
    ELSE IF x = <<>> THEN TRUE
    ELSE IF CharCode(Head(x)) # CharCode(Head(y))
         THEN CharCode(Head(x)) < CharCode(Head(y))
    ELSE StrLess(Tail(x), Tail(y))

STrue == <<"t", "r", "u", "e">>

SFalse == <<"f", "a", "l", "s", "e">>

SNull == <<"n", "u", "l", "l">>

SUnknown == <<"u", "n", "k", "n", "o", "w", "n">>

Digit(d) == <<"0", "1", "2", "3", "4", "5", "6", "7", "8", "9">>[d + 1]

RECURSIVE NatToString(_)
NatToString(n) ==
    IF n < 10 THEN <<Digit(n)>> ELSE NatToString(n \div 10) \o <<Digit(n % 10)>>

\* std::to_string(long long)
IntToString(i) == IF i < 0 THEN <<"-">> \o NatToString(0 - i) ELSE NatToString(i)

\* n as exactly six decimal digits
Pad6(n) ==
    LET d == NatToString(n)
    IN  [j \in 1..(6 - Len(d)) |-> "0"] \o d

\* std::to_string(double), i.e. printf("%f"): six digits after the point
FloatToString(x) ==
    IF x.k = "nan" THEN <<"n", "a", "n">>
    ELSE IF x.k = "inf"
         THEN (IF x.neg THEN <<"-">> ELSE <<>>) \o <<"i", "n", "f">>
    ELSE LET micro == RoundHalfEven(x.m * 1000000, FScale)
         IN  (IF x.neg THEN <<"-">> ELSE <<>>)
             \o NatToString(micro \div 1000000) \o <<".">>
             \o Pad6(micro % 1000000)

(***************************************************************************)
(* Value: the variant and its constructors                                 *)
(***************************************************************************)
ValueNull == [t |-> "Null", b |-> FALSE, i |-> 0, f |-> FPosZero, s |-> <<>>, p |-> 0]

ValueBool(x) == [ValueNull EXCEPT !.t = "Bool", !.b = x]

ValueInt(x) == [ValueNull EXCEPT !.t = "Int", !.i = x]

ValueFloat(x) == [ValueNull EXCEPT !.t = "Float", !.f = x]

ValueString(x) == [ValueNull EXCEPT !.t = "String", !.s = x]

ValueStruct(h) == [ValueNull EXCEPT !.t = "Struct", !.p = h]

ValueArray(h) == [ValueNull EXCEPT !.t = "Array", !.p = h]

GetType(v) == v.t

IsNull(v) == GetType(v) = "Null"

IsBool(v) == GetType(v) = "Bool"

IsInt(v) == GetType(v) = "Int"

IsFloat(v) == GetType(v) = "Float"

IsString(v) == GetType(v) = "String"

IsNumber(v) == IsInt(v) \/ IsFloat(v)

IsArray(v) == v.t = "Array"

IsStruct(v) == v.t = "Struct"

AsInt(v) ==
    IF IsInt(v) THEN v.i ELSE IF IsFloat(v) THEN FloatToInt(v.f) ELSE 0

AsFloat(v) ==
    IF IsFloat(v) THEN v.f ELSE IF IsInt(v) THEN IntToFloat(v.i) ELSE FPosZero

(***************************************************************************)
(* What a call ends in: a returned Value (st = "ok"; a bool or a string    *)
(* result is carried as a Bool or String Value), a thrown                  *)
(* std::runtime_error (st = its message), or an abnormal end of the        *)
(* process.                                                                *)
(***************************************************************************)
Ok(v) == [st |-> "ok", v |-> v]

Throw(msg) == [st |-> msg, v |-> ValueNull]

\* the process is stopped by the hardware or the sanitizer (SIGFPE, -ftrapv)
Trap == [st |-> "trap", v |-> ValueNull]

\* unbounded recursion exhausts the stack
StackOverflow == [st |-> "stack overflow", v |-> ValueNull]

\* the error kinds, by the messages the code throws
DivisionByZero == {"Division by zero", "Modulo by zero"}

UnsupportedOperand ==
    {"Cannot add these value types", "Cannot subtract these value types",
     "Cannot multiply these value types", "Cannot divide these value types",
     "Modulo requires integer operands", "Cannot negate this value type"}

UncomparableTypes == {"Cannot compare these value types "}

WrongType ==
    {"getField() called on non-struct value", "setField() called on non-struct value"}

\* Value(int64_t) of an arithmetic result: exact when it fits; a signed
\* overflow is undefined, and the build either wraps or traps
IntResult(x) ==
    IF x \in IntRange THEN {Ok(ValueInt(x))} ELSE {Ok(ValueInt(Wrap(x))), Trap}

OperatorAdd(a, b) ==
    IF IsInt(a) /\ IsInt(b) THEN IntResult(AsInt(a) + AsInt(b))
    ELSE IF IsNumber(a) /\ IsNumber(b)
         THEN {Ok(ValueFloat(FAdd(AsFloat(a), AsFloat(b))))}
    ELSE IF IsString(a) /\ IsString(b) THEN {Ok(ValueString(a.s \o b.s))}
    ELSE {Throw("Cannot add these value types")}

OperatorSub(a, b) ==
    IF IsInt(a) /\ IsInt(b) THEN IntResult(AsInt(a) - AsInt(b))
    ELSE IF IsNumber(a) /\ IsNumber(b)
         THEN {Ok(ValueFloat(FSub(AsFloat(a), AsFloat(b))))}
    ELSE {Throw("Cannot subtract these value types")}

OperatorMul(a, b) ==
    IF IsInt(a) /\ IsInt(b) THEN IntResult(AsInt(a) * AsInt(b))
    ELSE IF IsNumber(a) /\ IsNumber(b)
         THEN {Ok(ValueFloat(FMul(AsFloat(a), AsFloat(b))))}
    ELSE {Throw("Cannot multiply these value types")}

\* operator/ that tests only an Int divisor
OperatorDivUnchecked(a, b) ==
    IF IsInt(a) /\ IsInt(b)
    THEN IF AsInt(b) = 0 THEN {Throw("Division by zero")}
         ELSE IntResult(TruncDiv(AsInt(a), AsInt(b)))
    ELSE IF IsNumber(a) /\ IsNumber(b)
         THEN {Ok(ValueFloat(FDiv(AsFloat(a), AsFloat(b))))}
    ELSE {Throw("Cannot divide these value types")}

\* INT64_MIN / -1 overflows: the quotient is not representable, the
\* behaviour is undefined, and the division instruction either traps or
\* leaves the wrapped quotient
OperatorDiv(a, b) ==
    IF IsInt(a) /\ IsInt(b)
    THEN IF AsInt(b) = 0 THEN {Throw("Division by zero")}
         ELSE IntResult(TruncDiv(AsInt(a), AsInt(b)))
    ELSE IF IsNumber(a) /\ IsNumber(b)
         THEN IF FEq(AsFloat(b), FPosZero) THEN {Throw("Division by zero")}
              ELSE {Ok(ValueFloat(FDiv(AsFloat(a), AsFloat(b))))}
    ELSE {Throw("Cannot divide these value types")}

\* INT64_MIN % -1 is undefined with its quotient: a trap, or remainder 0
OperatorMod(a, b) ==
    IF IsInt(a) /\ IsInt(b)
    THEN IF AsInt(b) = 0 THEN {Throw("Modulo by zero")}
         ELSE IF TruncDiv(AsInt(a), AsInt(b)) \in IntRange
              THEN {Ok(ValueInt(TruncMod(AsInt(a), AsInt(b))))}
         ELSE {Ok(ValueInt(TruncMod(AsInt(a), AsInt(b)))), Trap}
    ELSE {Throw("Modulo requires integer operands")}

OperatorNeg(a) ==
    IF IsInt(a) THEN IntResult(0 - AsInt(a))
    ELSE IF IsFloat(a) THEN {Ok(ValueFloat(FNeg(AsFloat(a))))}
    ELSE {Throw("Cannot negate this value type")}

\* isTruthy() without the "false" and "0" literals
IsTruthyNonEmpty(v) ==
    IF IsNull(v) THEN FALSE
    ELSE IF IsBool(v) THEN v.b
    ELSE IF IsInt(v) THEN AsInt(v) # 0
    ELSE IF IsFloat(v) THEN ~FEq(AsFloat(v), FPosZero)
    ELSE IF IsString(v) THEN v.s # <<>>
    ELSE FALSE

IsTruthy(v) ==
    IF IsNull(v) THEN FALSE
    ELSE IF IsBool(v) THEN v.b
    ELSE IF IsInt(v) THEN AsInt(v) # 0
    ELSE IF IsFloat(v) THEN ~FEq(AsFloat(v), FPosZero)
    ELSE IF IsString(v)
         THEN IF v.s = STrue \/ v.s = <<"1">> THEN TRUE
              ELSE IF v.s = SFalse \/ v.s = <<"0">> THEN FALSE
              ELSE v.s # <<>>
    ELSE FALSE

OperatorNot(v) == Ok(ValueBool(~IsTruthy(v)))

OperatorLt(a, b) ==
    IF IsInt(a) /\ IsInt(b) THEN Ok(ValueBool(AsInt(a) < AsInt(b)))
    ELSE IF IsNumber(a) /\ IsNumber(b) THEN Ok(ValueBool(FLt(AsFloat(a), AsFloat(b))))
    ELSE IF IsString(a) /\ IsString(b) THEN Ok(ValueBool(StrLess(a.s, b.s)))
    ELSE Throw("Cannot compare these value types ")

\* operator> that coerces every operand that is no string pair with asFloat()
OperatorGtCoerce(a, b) ==
    IF IsString(a) /\ IsString(b) THEN Ok(ValueBool(StrLess(b.s, a.s)))
    ELSE Ok(ValueBool(FLt(AsFloat(b), AsFloat(a))))

OperatorGt(a, b) ==
    IF IsInt(a) /\ IsInt(b) THEN Ok(ValueBool(AsInt(a) > AsInt(b)))
    ELSE IF IsNumber(a) /\ IsNumber(b) THEN Ok(ValueBool(FLt(AsFloat(b), AsFloat(a))))
    ELSE IF IsString(a) /\ IsString(b) THEN Ok(ValueBool(StrLess(b.s, a.s)))
    ELSE Throw("Cannot compare these value types ")

\* !(*this > other): the exception of operator> passes through
OperatorLe(a, b) ==
    LET g == OperatorGt(a, b)
    IN  IF g.st = "ok" THEN Ok(ValueBool(~g.v.b)) ELSE g

OperatorGe(a, b) ==
    LET l == OperatorLt(a, b)
    IN  IF l.st = "ok" THEN Ok(ValueBool(~l.v.b)) ELSE l

(***************************************************************************)
(* The heap: StructInstance and ArrayInstance objects owned by shared_ptr  *)
(* handles.  A handle is the identity of its instance.                     *)
(***************************************************************************)
MaxStructs == 1

StructIds == 1..MaxStructs

\* the handles of the array instances
ArrayIds == {1, 2}

FieldNames == {"x", "y"}

Slots == {"r1", "r2"}

NoFields == [n \in {} |-> ValueNull]

FreeStruct == [live |-> FALSE, structName |-> "", fields |-> NoFields]

FreeArray == [live |-> FALSE, elems |-> <<>>]

\* how deep operator== can recurse before a pair of instances is on the
\* stack twice, and toString() before one instance is: beyond it the
\* recursion never ends
EqDepth == Cardinality(ArrayIds) * Cardinality(ArrayIds) + 1

ToStringDepth == Cardinality(ArrayIds) + 1

\* std::vector operator== that compares the sizes alone
VectorEqSizes(xs, ys, i, arr, fuel) == [ok |-> TRUE, eq |-> (Len(xs) = Len(ys))]

\* operator==; eq is the result, ok is FALSE when the recursion through
\* std::vector<Value>::operator== does not end
RECURSIVE OperatorEqRec(_, _, _, _)
RECURSIVE VectorEq(_, _, _, _, _)
OperatorEqRec(a, b, arr, fuel) ==
    IF GetType(a) # GetType(b) THEN [ok |-> TRUE, eq |-> FALSE]
    ELSE IF IsNull(a) THEN [ok |-> TRUE, eq |-> TRUE]
    ELSE IF IsBool(a) THEN [ok |-> TRUE, eq |-> (a.b = b.b)]
    ELSE IF IsInt(a) THEN [ok |-> TRUE, eq |-> (AsInt(a) = AsInt(b))]
    ELSE IF IsFloat(a) THEN [ok |-> TRUE, eq |-> FEq(AsFloat(a), AsFloat(b))]
    ELSE IF IsString(a) THEN [ok |-> TRUE, eq |-> (a.s = b.s)]
    ELSE IF IsArray(a)
         THEN IF ~IsArray(b) THEN [ok |-> TRUE, eq |-> FALSE]
              ELSE IF fuel = 0 THEN [ok |-> FALSE, eq |-> FALSE]
              ELSE VectorEq(arr[a.p].elems, arr[b.p].elems, 1, arr, fuel - 1)
    ELSE [ok |-> TRUE, eq |-> FALSE]

\* std::vector operator==: the sizes, then std::equal, which stops at the
\* first pair that is not equal
VectorEq(xs, ys, i, arr, fuel) ==
    IF Len(xs) # Len(ys) THEN [ok |-> TRUE, eq |-> FALSE]
    ELSE IF i > Len(xs) THEN [ok |-> TRUE, eq |-> TRUE]
    ELSE LET e == OperatorEqRec(xs[i], ys[i], arr, fuel)
         IN  IF ~e.ok \/ ~e.eq THEN e
             ELSE VectorEq(xs, ys, i + 1, arr, fuel)

OperatorEq(a, b, arr) ==
    LET e == OperatorEqRec(a, b, arr, EqDepth)
    IN  IF e.ok THEN Ok(ValueBool(e.eq)) ELSE StackOverflow

OperatorNe(a, b, arr) ==
    LET e == OperatorEq(a, b, arr)
    IN  IF e.st = "ok" THEN Ok(ValueBool(~e.v.b)) ELSE e

\* toString(); s is the text, ok is FALSE when the recursion does not end
RECURSIVE ToStringRec(_, _, _)
RECURSIVE ToStringElems(_, _, _, _, _)
ToStringRec(v, arr, fuel) ==
    IF IsNull(v) THEN [ok |-> TRUE, s |-> SNull]
    ELSE IF IsBool(v) THEN [ok |-> TRUE, s |-> IF v.b THEN STrue ELSE SFalse]
    ELSE IF IsInt(v) THEN [ok |-> TRUE, s |-> IntToString(AsInt(v))]
    ELSE IF IsFloat(v) THEN [ok |-> TRUE, s |-> FloatToString(AsFloat(v))]
    ELSE IF IsString(v) THEN [ok |-> TRUE, s |-> v.s]
    ELSE IF IsArray(v)
         THEN IF fuel = 0 THEN [ok |-> FALSE, s |-> <<>>]
              ELSE ToStringElems(arr[v.p].elems, 1, <<"[">>, arr, fuel - 1)
    ELSE [ok |-> TRUE, s |-> SUnknown]

\* the loop of toString() over the elements, result being the text so far
ToStringElems(xs, i, result, arr, fuel) ==
    IF i > Len(xs) THEN [ok |-> TRUE, s |-> result \o <<"]">>]
    ELSE LET e == ToStringRec(xs[i], arr, fuel)
         IN  IF ~e.ok THEN e
             ELSE ToStringElems(xs, i + 1,
                      result \o e.s \o (IF i < Len(xs) THEN <<",", " ">> ELSE <<>>),
                      arr, fuel)

ToString(v, arr) ==
    LET r == ToStringRec(v, arr, ToStringDepth)
    IN  IF r.ok THEN Ok(ValueString(r.s)) ELSE StackOverflow

\* getField() that answers Null on a Value that is no struct
GetFieldLenient(v, name, st) ==
    IF ~IsStruct(v) \/ name \notin DOMAIN st[v.p].fields THEN Ok(ValueNull)
    ELSE Ok(st[v.p].fields[name])

GetField(v, name, st) ==
    IF ~IsStruct(v) THEN Throw("getField() called on non-struct value")
    ELSE IF name \notin DOMAIN st[v.p].fields THEN Ok(ValueNull)
    ELSE Ok(st[v.p].fields[name])

HasField(v, name, st) ==
    IF ~IsStruct(v) THEN Ok(ValueBool(FALSE))
    ELSE Ok(ValueBool(name \in DOMAIN st[v.p].fields))

\* s->fields[name] = std::move(value)
FieldsPut(fields, name, value) ==
    [n \in (DOMAIN fields) \cup {name} |-> IF n = name THEN value ELSE fields[n]]

(***************************************************************************)
(* Shared ownership: an instance lives exactly as long as some Value holds *)
(* its handle, in a variable, in a field or in an array element.           *)
(***************************************************************************)
Refs(v, tag, h) == v.t = tag /\ v.p = h

\* use_count() > 0
Held(tag, h, sl, st, ar) ==
    \/ \E s \in Slots : Refs(sl[s], tag, h)
    \/ \E g \in StructIds :
          st[g].live /\ \E n \in DOMAIN st[g].fields : Refs(st[g].fields[n], tag, h)
    \/ \E g \in ArrayIds :
          ar[g].live /\ \E i \in 1..Len(ar[g].elems) : Refs(ar[g].elems[i], tag, h)

\* the destructors run by dropping Values: every instance whose last handle
\* is gone is destroyed, and with it the handles it held
RECURSIVE Release(_, _, _)
Release(sl, st, ar) ==
    LET ds == {h \in StructIds : st[h].live /\ ~Held("Struct", h, sl, st, ar)}
        da == {h \in ArrayIds : ar[h].live /\ ~Held("Array", h, sl, st, ar)}
    IN  IF ds = {} /\ da = {} THEN [st |-> st, ar |-> ar]
        ELSE Release(sl,
                     [h \in StructIds |-> IF h \in ds THEN FreeStruct ELSE st[h]],
                     [h \in ArrayIds |-> IF h \in da THEN FreeArray ELSE ar[h]])

\* the state after an operation left the variables sl and the instances
\* st, ar; w is the record of the fields written so far
Commit(sl, st, ar, w) ==
    LET rel == Release(sl, st, ar)
    IN  /\ slot' = sl
        /\ structs' = rel.st
        /\ arrays' = rel.ar
        /\ written' = [h \in StructIds |-> IF rel.st[h].live THEN w[h] ELSE NoFields]

\* the last call: its name, its operand values where they are temporaries
\* (a, b), the field name (n), and what the call ended in (r)
Log(op, a, b, n, r) == [op |-> op, a |-> a, b |-> b, n |-> n, r |-> r]

NoLog == Log("none", ValueNull, ValueNull, "-", Ok(ValueNull))

\* the scalar literals the engine stores in variables, fields and elements
StoredScalars == {ValueNull, ValueInt(1), ValueInt(2)}

Init ==
    /\ slot = [s \in Slots |-> ValueNull]
    /\ structs = [h \in StructIds |-> FreeStruct]
    /\ arrays = [h \in ArrayIds |-> FreeArray]
    /\ written = [h \in StructIds |-> NoFields]
    /\ out = NoLog

\* d = Value(literal)
Construct(d, v) ==
    /\ Commit([slot EXCEPT ![d] = v], structs, arrays, written)
    /\ out' = Log("construct", ValueNull, ValueNull, "-", Ok(v))

\* d = s : the variant is copied, a shared_ptr alternative by its handle
Copy(d, s) ==
    /\ d # s
    /\ Commit([slot EXCEPT ![d] = slot[s]], structs, arrays, written)
    /\ out' = Log("copy", ValueNull, ValueNull, "-", Ok(slot[s]))

\* d = Value::createStruct("T")
CreateStruct(d) ==
    /\ \E h \in StructIds : ~structs[h].live
    /\ LET h == CHOOSE g \in StructIds :
                    ~structs[g].live /\ \A k \in StructIds : ~structs[k].live => g <= k
           st == [structs EXCEPT ![h] = [live |-> TRUE, structName |-> "T",
                                         fields |-> NoFields]]
       IN  /\ Commit([slot EXCEPT ![d] = ValueStruct(h)], st, arrays,
                     [written EXCEPT ![h] = NoFields])
           /\ out' = Log("createStruct", ValueNull, ValueNull, "-", Ok(ValueStruct(h)))

\* d = Value::createArray(elements)
CreateArray(d, elements) ==
    /\ \E h \in ArrayIds : ~arrays[h].live
    /\ LET h == CHOOSE g \in ArrayIds :
                    ~arrays[g].live /\ \A k \in ArrayIds : ~arrays[k].live => g <= k
           ar == [arrays EXCEPT ![h] = [live |-> TRUE, elems |-> elements]]
       IN  /\ Commit([slot EXCEPT ![d] = ValueArray(h)], structs, ar, written)
           /\ out' = Log("createArray", ValueNull, ValueNull, "-", Ok(ValueArray(h)))

\* setField() that writes into a copy of the StructInstance
SetFieldDetached(recv, name, value, st) == st

\* setField() that inserts, and leaves a field that exists as it is
SetFieldInsertOnly(recv, name, value, st) ==
    IF name \in DOMAIN st[recv.p].fields THEN st
    ELSE [st EXCEPT ![recv.p].fields = FieldsPut(@, name, value)]

\* the state of the instances after recv.setField(name, value)
SetFieldHeap(recv, name, value, st) ==
    [st EXCEPT ![recv.p].fields = FieldsPut(@, name, value)]

\* the values the engine passes as arguments: literals and its variables
ArgValues == StoredScalars \cup {slot[s] : s \in Slots}

\* what recv.setField(name, value) ends in
SetFieldResult(recv) ==
    IF ~IsStruct(recv) THEN Throw("setField() called on non-struct value")
    ELSE Ok(ValueNull)

\* the fields written so far, after one more write
Remember(w, h, name, value) ==
    [w EXCEPT ![h] = [n \in (DOMAIN @) \cup {name} |-> IF n = name THEN value ELSE @[n]]]

\* what recv.setField(name, value) does to the state
SetFieldEffect(recv, name, value) ==
    IF ~IsStruct(recv)
    THEN UNCHANGED <<slot, structs, arrays, written>>
    ELSE Commit(slot, SetFieldHeap(recv, name, value, structs), arrays,
                Remember(written, recv.p, name, value))

\* slot[s].setField(n, v)
SetField(s, n, v) ==
    /\ SetFieldEffect(slot[s], n, v)
    /\ out' = Log("setField", ValueNull, ValueNull, "-", SetFieldResult(slot[s]))

\* d = slot[s].getField(n)
GetFieldTo(d, s, n) ==
    LET r == GetField(slot[s], n, structs)
    IN  /\ IF r.st = "ok"
           THEN Commit([slot EXCEPT ![d] = r.v], structs, arrays, written)
           ELSE UNCHANGED <<slot, structs, arrays, written>>
        /\ out' = Log("getField", ValueNull, ValueNull, "-", r)

\* slot[s].asArray()->push_back(v); std::get throws on another tag
Push(s, v) ==
    IF ~IsArray(slot[s])
    THEN /\ UNCHANGED <<slot, structs, arrays, written>>
         /\ out' = Log("push", ValueNull, ValueNull, "-", Throw("bad_variant_access"))
    ELSE /\ Len(arrays[slot[s].p].elems) < MaxLen
         /\ Commit(slot, structs,
                   [arrays EXCEPT ![slot[s].p].elems = Append(@, v)], written)
         /\ out' = Log("push", ValueNull, ValueNull, "-", Ok(ValueNull))

\* the element vectors the engine passes to createArray
ElemValues == {ValueInt(1), ValueInt(2)} \cup {slot[s] : s \in {q \in Slots : IsArray(slot[q])}}

ElementVectors == UNION {[1..k -> ElemValues] : k \in 0..MaxLen}

NextRecords ==
    \/ \E d \in Slots, v \in StoredScalars : Construct(d, v)
    \/ \E d, s \in Slots : Copy(d, s)
    \/ \E d \in Slots : CreateStruct(d)
    \/ \E s \in Slots, n \in FieldNames, v \in ArgValues : SetField(s, n, v)
    \/ \E d, s \in Slots, n \in FieldNames : GetFieldTo(d, s, n)

SpecRecords == Init /\ [][NextRecords]_vars

NextArrays ==
    \/ \E d \in Slots, v \in StoredScalars : Construct(d, v)
    \/ \E d, s \in Slots : Copy(d, s)
    \/ \E d \in Slots, e \in ElementVectors : CreateArray(d, e)
    \/ \E s \in Slots, v \in ElemValues : Push(s, v)

SpecArrays == Init /\ [][NextArrays]_vars

(***************************************************************************)
(* The operators applied to two operand variables, r1 and r2, that hold    *)
(* values of every tag: a literal, the handle of a struct without fields   *)
(* or the handle of the array [1].                                         *)
(***************************************************************************)
IntOperands == {ValueInt(i) : i \in IntRange}

FloatOperands ==
    {ValueFloat(x) : x \in {FNaN, FInf(FALSE), FInf(TRUE), FPosZero, FNegZero,
                            FFin(FALSE, 1), FFin(FALSE, FScale),
                            FFin(TRUE, FScale + 1), FFin(FALSE, FMaxMag)}}

StringOperands ==
    {ValueString(x) : x \in {<<>>, <<"0">>, <<"1">>, STrue, SFalse, <<"a">>,
                             <<"a", "b">>, <<"b">>}}

Operands ==
    {ValueNull, ValueBool(TRUE), ValueBool(FALSE), ValueStruct(1), ValueArray(1)}
        \cup IntOperands \cup FloatOperands \cup StringOperands

InitOps ==
    /\ slot \in [Slots -> Operands]
    /\ LET st == [h \in StructIds |->
                     IF h = 1 THEN [live |-> TRUE, structName |-> "T", fields |-> NoFields]
                     ELSE FreeStruct]
           ar == [h \in ArrayIds |->
                     IF h = 1 THEN [live |-> TRUE, elems |-> <<ValueInt(1)>>]
                     ELSE FreeArray]
       IN  /\ structs = Release(slot, st, ar).st
           /\ arrays = Release(slot, st, ar).ar
    /\ written = [h \in StructIds |-> NoFields]
    /\ out = NoLog

Pure == UNCHANGED <<slot, structs, arrays, written>>

\* the operands
A == slot["r1"]

B == slot["r2"]

CallAdd == Pure /\ \E r \in OperatorAdd(A, B) : out' = Log("+", A, B, "-", r)

CallSub == Pure /\ \E r \in OperatorSub(A, B) : out' = Log("-", A, B, "-", r)

CallMul == Pure /\ \E r \in OperatorMul(A, B) : out' = Log("*", A, B, "-", r)

CallDiv == Pure /\ \E r \in OperatorDiv(A, B) : out' = Log("/", A, B, "-", r)

CallMod == Pure /\ \E r \in OperatorMod(A, B) : out' = Log("%", A, B, "-", r)

CallNeg == Pure /\ \E r \in OperatorNeg(A) : out' = Log("neg", A, ValueNull, "-", r)

CallNot == Pure /\ out' = Log("!", A, ValueNull, "-", OperatorNot(A))

CallIsTruthy ==
    Pure /\ out' = Log("isTruthy", A, ValueNull, "-", Ok(ValueBool(IsTruthy(A))))

CallEq == Pure /\ out' = Log("==", A, B, "-", OperatorEq(A, B, arrays))

CallNe == Pure /\ out' = Log("!=", A, B, "-", OperatorNe(A, B, arrays))

CallLt == Pure /\ out' = Log("<", A, B, "-", OperatorLt(A, B))

CallGt == Pure /\ out' = Log(">", A, B, "-", OperatorGt(A, B))

CallLe == Pure /\ out' = Log("<=", A, B, "-", OperatorLe(A, B))

CallGe == Pure /\ out' = Log(">=", A, B, "-", OperatorGe(A, B))

CallToString == Pure /\ out' = Log("toString", A, ValueNull, "-", ToString(A, arrays))

CallGetField(n) ==
    Pure /\ out' = Log("getField", A, ValueNull, n, GetField(A, n, structs))

CallHasField(n) ==
    Pure /\ out' = Log("hasField", A, ValueNull, n, HasField(A, n, structs))

CallSetField(n) ==
    /\ SetFieldEffect(A, n, B)
    /\ out' = Log("setField", A, B, n, SetFieldResult(A))

\* (a / b) * b + a % b; an exception or a trap in one operator ends the
\* evaluation of the expression
DivModSum(a, b) ==
    LET prod == UNION {IF q.st = "ok" THEN OperatorMul(q.v, b) ELSE {q} :
                          q \in OperatorDiv(a, b)}
        PlusRem(p) == UNION {IF m.st = "ok" THEN OperatorAdd(p, m.v) ELSE {m} :
                                m \in OperatorMod(a, b)}
    IN  UNION {IF p.st = "ok" THEN PlusRem(p.v) ELSE {p} : p \in prod}

CallDivModSum ==
    Pure /\ \E r \in DivModSum(A, B) : out' = Log("(a/b)*b+a%b", A, B, "-", r)

NextOps ==
    \/ CallAdd
    \/ CallSub
    \/ CallMul
    \/ CallDiv
    \/ CallMod
    \/ CallNeg
    \/ CallNot
    \/ CallIsTruthy
    \/ CallEq
    \/ CallNe
    \/ CallLt
    \/ CallGt
    \/ CallLe
    \/ CallGe
    \/ CallToString
    \/ \E n \in FieldNames : CallGetField(n)
    \/ \E n \in FieldNames : CallHasField(n)
    \/ \E n \in FieldNames : CallSetField(n)
    \/ CallDivModSum

SpecOps == InitOps /\ [][NextOps]_vars

(***************************************************************************)
(* Properties                                                              *)
(***************************************************************************)
IsScalar(v) == ~IsStruct(v) /\ ~IsArray(v)

\* u and v hold the handle of one instance
SameInstance(u, v) == ~IsScalar(u) /\ u.t = v.t /\ u.p = v.p

\* a setField made through u is what getField through v returns
WriteThroughSeen(u, v, st) ==
    \A n \in FieldNames, w \in StoredScalars :
        GetField(v, n, SetFieldHeap(u, n, w, st)) = Ok(w)

C1_CopyStep ==
    \A d, s \in Slots :
        (IsStruct(slot[s]) /\ Copy(d, s)) =>
            /\ WriteThroughSeen(slot'[d], slot'[s], structs')
            /\ WriteThroughSeen(slot'[s], slot'[d], structs')

C1_SetFieldStep ==
    \A s \in Slots, n \in FieldNames, v \in ArgValues :
        (IsStruct(slot[s]) /\ SetField(s, n, v)) =>
            \A t \in Slots :
                SameInstance(slot[t], slot[s]) =>
                    /\ SameInstance(slot'[t], slot'[s])
                    /\ GetField(slot'[t], n, structs') = Ok(v)

C1_ScalarStep ==
    \A d, s \in Slots, v \in StoredScalars :
        (d # s /\ IsScalar(slot[d]) /\ Construct(s, v)) => slot'[d] = slot[d]

\* C1: a copy of a Record Value is an alias of the instance: a setField(n, v)
\* through one alias is what getField(n) returns through every alias, however
\* long the aliases have existed; a copy of a scalar does not change when the
\* variable it was copied from is overwritten.
C1_Aliasing == [][C1_CopyStep /\ C1_SetFieldStep /\ C1_ScalarStep]_vars

\* r2 = r1, then r2.setField("x", 1): r1.getField("x") is 1
C1_Witness ==
    /\ out.op = "setField" /\ out.r.st = "ok"
    /\ IsStruct(slot["r1"]) /\ SameInstance(slot["r1"], slot["r2"])
    /\ GetField(slot["r1"], "x", structs) = Ok(ValueInt(1))

\* C1 for Array handles, under SpecArrays: a copy of an Array Value holds
\* the same elements as the original, and a push_back through one variable
\* is seen through every variable that holds the instance.
C1_ArrayAliasing ==
    [][/\ \A d, s \in Slots :
              (IsArray(slot[s]) /\ Copy(d, s)) =>
                  /\ SameInstance(slot'[d], slot'[s])
                  /\ arrays'[slot'[d].p].elems = arrays[slot[s].p].elems
       /\ \A s \in Slots, v \in ElemValues :
              (IsArray(slot[s]) /\ Push(s, v)) =>
                  \A t \in Slots :
                      SameInstance(slot[t], slot[s]) =>
                          arrays'[slot'[t].p].elems
                              = Append(arrays[slot[s].p].elems, v)]_vars

\* the Value last written to field n of instance h, Null when none was
LastWritten(h, n) == IF n \in DOMAIN written[h] THEN written[h][n] ELSE ValueNull

C2_State ==
    \A s \in Slots :
        IsStruct(slot[s]) =>
            \A n \in FieldNames :
                /\ GetField(slot[s], n, structs) = Ok(LastWritten(slot[s].p, n))
                /\ HasField(slot[s], n, structs)
                       = Ok(ValueBool(n \in DOMAIN written[slot[s].p]))

C2_Step ==
    /\ \A d \in Slots :
           CreateStruct(d) =>
               \A n \in FieldNames : HasField(slot'[d], n, structs') = Ok(ValueBool(FALSE))
    /\ \A s \in Slots, n \in FieldNames, v \in ArgValues :
           (IsStruct(slot[s]) /\ SetField(s, n, v)) => out'.r = Ok(ValueNull)
    /\ \A h \in StructIds :
           (structs[h].live /\ structs'[h].live) =>
               DOMAIN structs[h].fields \subseteq DOMAIN structs'[h].fields

\* C2: on a record made by createStruct, which starts without fields,
\* setField always succeeds, getField(n) returns the Value last written to n
\* or Null when n was never written, hasField(n) holds exactly when n was
\* written, and no field of a live record disappears.
C2_RecordFields == []C2_State /\ [][C2_Step]_vars

\* x was written and y was not
C2_Witness ==
    /\ out.op = "setField" /\ out.r.st = "ok"
    /\ \E s \in Slots :
           /\ IsStruct(slot[s])
           /\ GetField(slot[s], "x", structs) = Ok(ValueInt(2))
           /\ HasField(slot[s], "x", structs) = Ok(ValueBool(TRUE))
           /\ HasField(slot[s], "y", structs) = Ok(ValueBool(FALSE))
           /\ GetField(slot[s], "y", structs) = Ok(ValueNull)

RecordOps == {"getField", "setField", "hasField"}

\* C3 as stated: on every Value that is no Record, getField, setField and
\* hasField each fail with a WrongType error instead of returning a result.
C3_AllThreeFail ==
    (out.op \in RecordOps /\ ~IsStruct(out.a)) => out.r.st \in WrongType

\* C3 amended: on every Value that is no Record, getField and setField fail
\* with a WrongType error; hasField does not fail, it returns false.
C3_NonRecordReceiver ==
    (out.op \in RecordOps /\ ~IsStruct(out.a)) =>
        IF out.op = "hasField" THEN out.r = Ok(ValueBool(FALSE))
        ELSE out.r.st \in WrongType

\* getField on an Array
C3_Witness ==
    /\ out.op = "getField" /\ IsArray(out.a)
    /\ out.r.st = "getField() called on non-struct value"

\* the divisor is Int 0, Float 0.0 or Float -0.0
ZeroDivisor(v) ==
    \/ IsInt(v) /\ v.i = 0
    \/ IsFloat(v) /\ v.f \in {FPosZero, FNegZero}

\* C4: operator/ on two numbers with a zero divisor, and operator% on two
\* Ints with divisor 0, fail with a DivisionByZero error and return no Value.
C4_DivisionByZero ==
    /\ (out.op = "/" /\ IsNumber(out.a) /\ IsNumber(out.b) /\ ZeroDivisor(out.b))
           => out.r.st \in DivisionByZero
    /\ (out.op = "%" /\ IsInt(out.a) /\ IsInt(out.b) /\ ZeroDivisor(out.b))
           => out.r.st \in DivisionByZero

\* Int 1 divided by Float -0.0
C4_Witness ==
    /\ out.op = "/" /\ IsInt(out.a) /\ out.b = ValueFloat(FNegZero)
    /\ out.r.st = "Division by zero"

\* C5: for all Ints a and b # 0, the minimum value and b = -1 included,
\* (a / b) * b + a % b evaluates without error to an Int equal to a.
C5_DivModIdentity ==
    (out.op = "(a/b)*b+a%b" /\ IsInt(out.a) /\ IsInt(out.b) /\ out.b.i # 0)
        => out.r = Ok(out.a)

\* C6: operator== is reflexive and symmetric over all Values, a Record and a
\* copy of its handle included, and false whenever the tags differ.
C6_EqualityRelation ==
    out.op = "==" =>
        /\ out.a = out.b => out.r = Ok(ValueBool(TRUE))
        /\ out.r = OperatorEq(out.b, out.a, arrays)
        /\ GetType(out.a) # GetType(out.b) => out.r = Ok(ValueBool(FALSE))

LiveArrays == {h \in ArrayIds : arrays[h].live}

Equal(u, v) == OperatorEq(u, v, arrays) = Ok(ValueBool(TRUE))

\* C7: two Array Values, of one instance or of two, are equal exactly when
\* they have the same length and the elements at every index are equal under
\* the same operator==; [1,2] == [1,2], [] == [] and [1,2] != [2,1].
C7_ArrayEquality ==
    \A g, h \in LiveArrays :
        LET xs == arrays[g].elems
            ys == arrays[h].elems
        IN  /\ Equal(ValueArray(g), ValueArray(h))
                  <=> /\ Len(xs) = Len(ys)
                      /\ \A i \in 1..Len(xs) : Equal(xs[i], ys[i])
            /\ (xs = <<ValueInt(1), ValueInt(2)>> /\ ys = <<ValueInt(2), ValueInt(1)>>)
                  => OperatorEq(ValueArray(g), ValueArray(h), arrays) = Ok(ValueBool(FALSE))
            /\ (xs = <<ValueInt(1), ValueInt(2)>> /\ ys = xs)
                  => Equal(ValueArray(g), ValueArray(h))
            /\ (xs = <<>> /\ ys = <<>>) => Equal(ValueArray(g), ValueArray(h))

\* two instances, both [1, 2], in the two variables
C7_Witness ==
    /\ IsArray(slot["r1"]) /\ IsArray(slot["r2"]) /\ slot["r1"].p # slot["r2"].p
    /\ arrays[slot["r1"].p].elems = <<ValueInt(1), ValueInt(2)>>
    /\ arrays[slot["r2"].p].elems = <<ValueInt(1), ValueInt(2)>>
    /\ Equal(slot["r1"], slot["r2"])

OrderOps == {"<", ">", "<=", ">="}

\* the operand tags for which an ordering is defined
Comparable(a, b) ==
    \/ GetType(a) \in {"Int", "Float"} /\ GetType(b) \in {"Int", "Float"}
    \/ GetType(a) = "String" /\ GetType(b) = "String"

\* C8: each of <, >, <=, >= returns a boolean exactly when both operands are
\* numbers or both are Strings, and fails with an UncomparableTypes error
\* for every other pair of tags.
C8_Ordering ==
    out.op \in OrderOps =>
        IF Comparable(out.a, out.b) THEN out.r.st = "ok" /\ IsBool(out.r.v)
        ELSE out.r.st \in UncomparableTypes

\* a String against an Int under <=
C8_Witness ==
    /\ out.op = "<=" /\ IsString(out.a) /\ IsInt(out.b)
    /\ out.r.st \in UncomparableTypes

\* the truthiness table
Truth(v) ==
    CASE GetType(v) = "Null" -> FALSE
      [] GetType(v) = "Bool" -> v.b
      [] GetType(v) = "Int" -> v.i # 0
      [] GetType(v) = "Float" -> v.f \notin {FPosZero, FNegZero}
      [] GetType(v) = "String" ->
            IF v.s \in {STrue, <<"1">>} THEN TRUE
            ELSE IF v.s \in {SFalse, <<"0">>} THEN FALSE
            ELSE Len(v.s) > 0
      [] GetType(v) \in {"Struct", "Array"} -> FALSE

\* C9: isTruthy() never fails and follows the truthiness table for every
\* Value, every Record and Array being false; operator! returns the Bool
\* that negates it.
C9_Truthiness ==
    /\ out.op = "isTruthy" => out.r = Ok(ValueBool(Truth(out.a)))
    /\ out.op = "!" => out.r = Ok(ValueBool(~Truth(out.a)))

\* the array [1], which has an element, is not truthy
C9_Witness ==
    /\ out.op = "isTruthy" /\ IsArray(out.a)
    /\ Len(arrays[out.a.p].elems) > 0
    /\ out.r = Ok(ValueBool(FALSE))

\* C10: toString() terminates and returns a string for every Value that
\* constructors, createArray and element mutations can build, an Array that
\* holds a handle to itself included.
C10_ToStringTotal ==
    \A s \in Slots : ToString(slot[s], arrays).st = "ok"

====
